---- MODULE Spec2Model ----
(***************************************************************************)
(* Model of create_files_json.py: enumerate the files git tracks, classify *)
(* each as binary or text, read it, and dump the {path, content} records   *)
(* as one JSON array.                                                      *)
(*                                                                         *)
(* Text (str) and bytes values are sequences of code points / byte values. *)
(***************************************************************************)
EXTENDS Integers, Sequences, FiniteSets

VARIABLES
    pc,          \* position of main(): start, enumerate, loop, classify_open, ...
    run,         \* which invocation of the tool this is (1 or 2)
    git,         \* what `git ls-files` does here: [failure, returncode, stdout]
    fs,          \* the working tree: relative path -> entry
    out_file,    \* /home/ubuntu/files_to_push.json: absent, or its bytes
    prev_out,    \* out_file as the previous invocation left it
    envLeft,     \* how many more times another process may touch the tree
    git_files,   \* main's git_files
    files_data,  \* main's files_data
    i,           \* the loop's 1-based index
    is_binary,   \* what is_binary_file returned for the current file
    content,     \* what read_file_content returned for the current file
    handles,     \* the file objects currently open
    console,     \* the notices printed so far
    trail        \* per handled path: what each step saw (history)

vars == <<pc, run, git, fs, out_file, prev_out, envLeft, git_files, files_data,
          i, is_binary, content, handles, console, trail>>

----------------------------------------------------------------------------
(* Bounds of the model *)

MaxFiles == 2    \* most paths the listing command prints
MaxLen == 3      \* longest short file, in bytes
MaxEnv == 1      \* steps of other processes during one behaviour

(* Program constants *)

ChunkSize == 1024

----------------------------------------------------------------------------
(* Sequences *)

Min(a, b) == IF a < b THEN a ELSE b

Rep(b, n) == [k \in 1..n |-> b]

SeqsUpTo(S, n) == UNION {[1..k -> S] : k \in 0..n}

\* the pieces ss[lo..hi] joined, halving the range
RECURSIVE FlattenRange(_, _, _)
FlattenRange(ss, lo, hi) ==
    IF lo > hi THEN <<>>
    ELSE IF lo = hi THEN ss[lo]
    ELSE LET mid == (lo + hi) \div 2
         IN  FlattenRange(ss, lo, mid) \o FlattenRange(ss, mid + 1, hi)

Flatten(ss) == FlattenRange(ss, 1, Len(ss))

----------------------------------------------------------------------------
(* Literals of the source, as code points *)

LF == 10
CR == 13

\* "[BINARY FILE - BASE64 ENCODED]\n"
Marker == <<91, 66, 73, 78, 65, 82, 89, 32, 70, 73, 76, 69, 32, 45, 32, 66, 65,
            83, 69, 54, 52, 32, 69, 78, 67, 79, 68, 69, 68, 93, 10>>

\* "[ERROR READING FILE: "
ErrPrefix == <<91, 69, 82, 82, 79, 82, 32, 82, 69, 65, 68, 73, 78, 71, 32, 70,
               73, 76, 69, 58, 32>>

\* "]"
ErrSuffix == <<93>>

----------------------------------------------------------------------------
(* get_git_files: the parse of the listing command's stdout *)

\* str.strip()'s whitespace
IsSpace(c) == c \in {9, 10, 11, 12, 13, 28, 29, 30, 31, 32, 133, 160}

\* s.split('\n'): the pieces between separators, empty ones included
RECURSIVE Split(_, _)
Split(s, sep) ==
    IF \A k \in 1..Len(s) : s[k] # sep
    THEN <<s>>
    ELSE LET p == CHOOSE k \in 1..Len(s) :
                      s[k] = sep /\ \A j \in 1..(k - 1) : s[j] # sep
         IN  <<SubSeq(s, 1, p - 1)>> \o Split(SubSeq(s, p + 1, Len(s)), sep)

\* f.strip()
Strip(s) ==
    LET keep == {k \in 1..Len(s) : ~IsSpace(s[k])}
    IN  IF keep = {} THEN <<>>
        ELSE LET lo == CHOOSE k \in keep : \A j \in keep : k <= j
                 hi == CHOOSE k \in keep : \A j \in keep : k >= j
             IN  SubSeq(s, lo, hi)

\* [f.strip() for f in result.stdout.split('\n') if f.strip()]
ParseLsFiles(stdout) ==
    LET lines    == Split(stdout, LF)
        stripped == [k \in 1..Len(lines) |-> Strip(lines[k])]
    IN  SelectSeq(stripped, LAMBDA f : f # <<>>)

----------------------------------------------------------------------------
(* is_binary_file's test of the chunk it read *)

\* a faulty read of the chunk: the whole file
ReadChunkAll(bytes) == bytes

\* f.read(1024)
ReadChunk(bytes) == SubSeq(bytes, 1, Min(ChunkSize, Len(bytes)))

\* b'\x00' in chunk
HasNull(chunk) == \E k \in 1..Len(chunk) : chunk[k] = 0

----------------------------------------------------------------------------
(* base64.b64encode(...).decode('utf-8') *)

\* one character of the standard alphabet A-Z a-z 0-9 + /, as a code point
B64Char(v) ==
    IF v < 26 THEN 65 + v
    ELSE IF v < 52 THEN 71 + v
    ELSE IF v < 62 THEN v - 4
    ELSE IF v = 62 THEN 43 ELSE 47

B64Pad == 61

\* three bytes become four characters; a short last group is padded with '='
B64Encode(bytes) ==
    LET n  == Len(bytes)
        At(k) == IF k <= n THEN bytes[k] ELSE 0
    IN  [j \in 1..(4 * ((n + 2) \div 3)) |->
            LET g  == (j - 1) \div 4
                k  == (j - 1) % 4
                b0 == At(3 * g + 1)
                b1 == At(3 * g + 2)
                b2 == At(3 * g + 3)
            IN  IF k = 0 THEN B64Char(b0 \div 4)
                ELSE IF k = 1 THEN B64Char((b0 % 4) * 16 + (b1 \div 16))
                ELSE IF k = 2 THEN
                    IF 3 * g + 2 > n THEN B64Pad
                    ELSE B64Char((b1 % 16) * 4 + (b2 \div 64))
                ELSE IF 3 * g + 3 > n THEN B64Pad
                     ELSE B64Char(b2 % 64)]

----------------------------------------------------------------------------
(* open(filepath, 'r', encoding='utf-8', errors='replace').read() *)

Replacement == 65533

IsCont(b) == b >= 128 /\ b <= 191

\* One step of the UTF-8 decoder at position p of s: the code point it
\* yields and the bytes it consumes.  An undecodable span (invalid start
\* byte, invalid continuation byte, unexpected end of data) yields one
\* replacement character.
Utf8Unit(s, p) ==
    LET ch  == s[p]
        rem == Len(s) - p + 1
        ch2 == s[p + 1]
        ch3 == s[p + 2]
        ch4 == s[p + 3]
        Bad(n) == [cp |-> Replacement, len |-> n]
    IN  IF ch < 128 THEN [cp |-> ch, len |-> 1]
        ELSE IF ch < 194 THEN Bad(1)
        ELSE IF ch < 224 THEN
            IF rem < 2 THEN Bad(rem)
            ELSE IF ~IsCont(ch2) THEN Bad(1)
            ELSE [cp |-> (ch - 192) * 64 + (ch2 - 128), len |-> 2]
        ELSE IF ch < 240 THEN
            IF rem < 2 THEN Bad(rem)
            ELSE IF ~IsCont(ch2) \/ (ch = 224 /\ ch2 < 160) \/ (ch = 237 /\ ch2 >= 160)
                 THEN Bad(1)
            ELSE IF rem < 3 THEN Bad(rem)
            ELSE IF ~IsCont(ch3) THEN Bad(2)
            ELSE [cp |-> (ch - 224) * 4096 + (ch2 - 128) * 64 + (ch3 - 128), len |-> 3]
        ELSE IF ch < 245 THEN
            IF rem < 2 THEN Bad(rem)
            ELSE IF ~IsCont(ch2) \/ (ch = 240 /\ ch2 < 144) \/ (ch = 244 /\ ch2 >= 144)
                 THEN Bad(1)
            ELSE IF rem < 3 THEN Bad(rem)
            ELSE IF ~IsCont(ch3) THEN Bad(2)
            ELSE IF rem < 4 THEN Bad(rem)
            ELSE IF ~IsCont(ch4) THEN Bad(3)
            ELSE [cp |-> (ch - 240) * 262144 + (ch2 - 128) * 4096
                          + (ch3 - 128) * 64 + (ch4 - 128),
                  len |-> 4]
        ELSE Bad(1)

\* the decoder run from position lo over the units that start at or before hi
RECURSIVE Utf8Run(_, _, _)
Utf8Run(s, lo, hi) ==
    IF lo > hi THEN <<>>
    ELSE LET u == Utf8Unit(s, lo)
         IN  <<u.cp>> \o Utf8Run(s, lo + u.len, hi)

\* The decoder always starts a new unit at a byte that is no continuation
\* byte, and at a byte that follows three continuation bytes (a unit has at
\* most three of them).
Utf8Boundary(s, m) ==
    \/ ~IsCont(s[m])
    \/ m > 3 /\ IsCont(s[m - 1]) /\ IsCont(s[m - 2]) /\ IsCont(s[m - 3])

\* The same run, cut at such a boundary near the middle: the two pieces
\* decode independently.  Any eight consecutive bytes hold a boundary.
RECURSIVE Utf8Span(_, _, _)
Utf8Span(s, lo, hi) ==
    IF hi - lo < 32 THEN Utf8Run(s, lo, hi)
    ELSE LET mid  == (lo + hi) \div 2
             cuts == {m \in mid..(mid + 7) : Utf8Boundary(s, m)}
             m    == CHOOSE c \in cuts : \A d \in cuts : c <= d
         IN  Utf8Span(s, lo, m - 1) \o Utf8Span(s, m, hi)

\* bytes.decode('utf-8', errors='replace')
Utf8DecodeReplace(bytes) == Utf8Span(bytes, 1, Len(bytes))

\* Text mode with the default newline=None: "\r\n" and a lone "\r" both
\* read as "\n".
TranslateNewlines(text) ==
    LET Drop == -1
        m == [k \in 1..Len(text) |->
                 IF text[k] # CR THEN text[k]
                 ELSE IF k < Len(text) /\ text[k + 1] = LF THEN Drop
                 ELSE LF]
    IN  SelectSeq(m, LAMBDA c : c # Drop)

\* what f.read() returns for a file opened in text mode
ReadText(bytes) == TranslateNewlines(Utf8DecodeReplace(bytes))

\* a faulty binary branch: only the first chunk is encoded
ReadBinaryChunkOnly(bytes) == Marker \o B64Encode(ReadChunk(bytes))

\* what read_file_content returns from the binary branch
ReadBinary(bytes) == Marker \o B64Encode(bytes)

----------------------------------------------------------------------------
(* The environment: the working tree and the listing command *)

PathA == <<97>>      \* "a"
PathB == <<98>>      \* "b"
TreePaths == {PathA, PathB}

\* What a path of the working tree can be: absent; a directory (it exists,
\* open() raises); a file on a failing device (open() succeeds, read()
\* raises); a regular file with its bytes.
Missing    == [kind |-> "missing", bytes |-> <<>>]
Directory  == [kind |-> "dir", bytes |-> <<>>]
Unreadable == [kind |-> "ioerr", bytes |-> <<>>]
File(b)    == [kind |-> "file", bytes |-> b]

\* a faulty layout: the output file lies in the working tree, as path "b"
LookupOutputInTree(tree, path) ==
    IF path = PathB
    THEN IF out_file.kind = "missing" THEN Missing ELSE File(out_file.bytes)
    ELSE IF path \in DOMAIN tree THEN tree[path] ELSE Missing

Lookup(tree, path) == IF path \in DOMAIN tree THEN tree[path] ELSE Missing

\* os.path.exists(file_path)
PathExists(tree, path) == Lookup(tree, path).kind # "missing"

\* the exception open(filepath, ...) raises, if any
OpenError(entry) ==
    IF entry.kind = "missing" THEN "ENOENT"
    ELSE IF entry.kind = "dir" THEN "EISDIR"
    ELSE "none"

\* the exception f.read(...) raises, if any
ReadError(entry) == IF entry.kind = "ioerr" THEN "EIO" ELSE "none"

\* str(e) of the OSError
ErrorText(err, path) ==
    LET quoted == <<39>> \o path \o <<39>>
    IN  IF err = "ENOENT"
        THEN \* "[Errno 2] No such file or directory: "
             <<91, 69, 114, 114, 110, 111, 32, 50, 93, 32, 78, 111, 32, 115,
               117, 99, 104, 32, 102, 105, 108, 101, 32, 111, 114, 32, 100,
               105, 114, 101, 99, 116, 111, 114, 121, 58, 32>> \o quoted
        ELSE IF err = "EISDIR"
        THEN \* "[Errno 21] Is a directory: "
             <<91, 69, 114, 114, 110, 111, 32, 50, 49, 93, 32, 73, 115, 32,
               97, 32, 100, 105, 114, 101, 99, 116, 111, 114, 121, 58, 32>>
             \o quoted
        ELSE \* "[Errno 5] Input/output error"
             <<91, 69, 114, 114, 110, 111, 32, 53, 93, 32, 73, 110, 112, 117,
               116, 47, 111, 117, 116, 112, 117, 116, 32, 101, 114, 114, 111,
               114>>

\* f"[ERROR READING FILE: {str(e)}]"
ErrorContent(err, path) == ErrPrefix \o ErrorText(err, path) \o ErrSuffix

\* git ls-files prints each tracked path followed by a newline
LsFilesOutput(paths) == Flatten([k \in 1..Len(paths) |-> paths[k] \o <<LF>>])

\* What running the listing command does: it cannot be started (no git
\* executable, no working directory), or it runs and exits with a status.
GitOutcomes ==
    {[failure |-> "none", returncode |-> 0, stdout |-> LsFilesOutput(ps)] :
        ps \in SeqsUpTo(TreePaths, MaxFiles)}
    \cup {[failure |-> "none", returncode |-> 128, stdout |-> out] :
            out \in {<<>>, LsFilesOutput(<<PathA>>)}}
    \cup {[failure |-> f, returncode |-> 0, stdout |-> <<>>] :
            f \in {"no_git", "no_cwd"}}

\* the entries of the small working trees
TreeEntries == {Missing, Directory, Unreadable, File(<<0>>), File(<<65>>)}

----------------------------------------------------------------------------
(* json.dump(files_data, f, indent=2, ensure_ascii=False) into a file opened
   with encoding='utf-8' *)

\* the hexadecimal digit of v, lower case
HexDigit(v) == IF v < 10 THEN 48 + v ELSE 87 + v

\* one character inside a JSON string: the quote, the backslash and the
\* control characters are escaped, everything else is written as it is
JsonEscape(c) ==
    IF c = 34 THEN <<92, 34>>
    ELSE IF c = 92 THEN <<92, 92>>
    ELSE IF c = 10 THEN <<92, 110>>
    ELSE IF c = 13 THEN <<92, 114>>
    ELSE IF c = 9 THEN <<92, 116>>
    ELSE IF c = 8 THEN <<92, 98>>
    ELSE IF c = 12 THEN <<92, 102>>
    ELSE IF c < 32 THEN <<92, 117, 48, 48, HexDigit(c \div 16), HexDigit(c % 16)>>
    ELSE <<c>>

JsonString(text) ==
    <<34>> \o Flatten([k \in 1..Len(text) |-> JsonEscape(text[k])]) \o <<34>>

\* one record, at indent level 1:
\*   {
\*     "path": "...",
\*     "content": "..."
\*   }
JsonObject(record) ==
    <<123, 10, 32, 32, 32, 32, 34, 112, 97, 116, 104, 34, 58, 32>>
    \o JsonString(record.path)
    \o <<44, 10, 32, 32, 32, 32, 34, 99, 111, 110, 116, 101, 110, 116, 34, 58, 32>>
    \o JsonString(record.content)
    \o <<10, 32, 32, 125>>

\* the array: "[]" when empty, else one object per record, each on its own
\* lines, separated by ","
JsonDump(records) ==
    IF records = <<>> THEN <<91, 93>>
    ELSE <<91>>
         \o Flatten([k \in 1..Len(records) |->
                (IF k = 1 THEN <<10, 32, 32>> ELSE <<44, 10, 32, 32>>)
                \o JsonObject(records[k])])
         \o <<10, 93>>

\* one code point written in UTF-8
Utf8EncodeChar(c) ==
    IF c < 128 THEN <<c>>
    ELSE IF c < 2048 THEN <<192 + (c \div 64), 128 + (c % 64)>>
    ELSE IF c < 65536
    THEN <<224 + (c \div 4096), 128 + ((c \div 64) % 64), 128 + (c % 64)>>
    ELSE <<240 + (c \div 262144), 128 + ((c \div 4096) % 64),
           128 + ((c \div 64) % 64), 128 + (c % 64)>>

Utf8Encode(text) == Flatten([k \in 1..Len(text) |-> Utf8EncodeChar(text[k])])

\* the output path: absent, or a file with its bytes
NoFile == [kind |-> "missing", bytes |-> <<>>]
EmptyFile == [kind |-> "file", bytes |-> <<>>]
WrittenFile(records) == [kind |-> "file", bytes |-> Utf8Encode(JsonDump(records))]

\* what the output path holds before the tool runs: nothing, or the array
\* some earlier run left there
OldOutputs == {NoFile, WrittenFile(<<[path |-> PathB, content |-> <<>>]>>)}

----------------------------------------------------------------------------
(* File objects *)

OpenHandle(hs, h) == hs \cup {h}

\* leaving a `with` block by return
CloseOnReturn(hs, h) == hs \ {h}

\* a faulty exit: the file object is not closed when an exception leaves
CloseOnRaiseLeak(hs, h) == hs

\* leaving a `with` block by an exception
CloseOnRaise(hs, h) == hs \ {h}

TheHandle == CHOOSE h \in handles : TRUE

----------------------------------------------------------------------------
(* main() *)

Path == git_files[i]

\* a faulty Notice: the index counted from 0 (enumerate without its start)
NoticeFromZero(kind) ==
    [kind |-> kind, i |-> i - 1, n |-> Len(git_files), path |-> git_files[i]]

Notice(kind) == [kind |-> kind, i |-> i, n |-> Len(git_files), path |-> Path]

NewTrail(exists) ==
    [path |-> Path, exists |-> exists, cls |-> "none", rd |-> "none",
     branch |-> "none", bytes |-> <<>>]

SetTrail(field, value) == [trail EXCEPT ![Len(trail)][field] = value]

\* a faulty get_git_files: the exit status is not looked at
GetGitFilesAnyStatus(g) == ParseLsFiles(g.stdout)

\* what get_git_files returns when the command could be run
GetGitFilesResult(g) ==
    IF g.returncode = 0 THEN ParseLsFiles(g.stdout) ELSE <<>>

\* the value is_binary_file returns after a successful read
IsBinaryChunk(bytes) == HasNull(ReadChunk(bytes))

\* line 39: os.chdir raises when the directory is missing
Chdir ==
    /\ pc = "start"
    /\ pc' = IF git.failure = "no_cwd" THEN "crashed" ELSE "enumerate"
    /\ UNCHANGED <<run, git, fs, out_file, prev_out, envLeft, git_files,
                   files_data, i, is_binary, content, handles, console, trail>>

\* lines 41-44: subprocess.run raises when git cannot be started; nothing
\* in get_git_files or main catches it
GetGitFiles ==
    /\ pc = "enumerate"
    /\ IF git.failure = "no_git"
       THEN /\ pc' = "crashed"
            /\ UNCHANGED <<git_files, files_data, i, console>>
       ELSE /\ git_files' = GetGitFilesResult(git)
            /\ files_data' = <<>>
            /\ i' = 1
            /\ console' = Append(console,
                   [kind |-> "Processing", i |-> 0,
                    n |-> Len(git_files'), path |-> <<>>])
            /\ pc' = "loop"
    /\ UNCHANGED <<run, git, fs, out_file, prev_out, envLeft, is_binary,
                   content, handles, trail>>

\* lines 46-47, 54-55: the existence check, and the skip
LoopTest ==
    /\ pc = "loop"
    /\ i <= Len(git_files)
    /\ IF PathExists(fs, Path)
       THEN /\ pc' = "classify_open"
            /\ trail' = Append(trail, NewTrail(TRUE))
            /\ UNCHANGED <<i, console>>
       ELSE /\ console' = Append(console, Notice("Skipped"))
            /\ trail' = Append(trail, NewTrail(FALSE))
            /\ i' = i + 1
            /\ pc' = "loop"
    /\ UNCHANGED <<run, git, fs, out_file, prev_out, envLeft, git_files,
                   files_data, is_binary, content, handles>>

\* lines 17-18, 21-22: is_binary_file opens the file
ClassifyOpen ==
    /\ pc = "classify_open"
    /\ LET e == Lookup(fs, Path)
       IN  IF OpenError(e) # "none"
           THEN /\ is_binary' = TRUE
                /\ trail' = SetTrail("cls", OpenError(e))
                /\ pc' = "read_open"
                /\ UNCHANGED handles
           ELSE /\ handles' = OpenHandle(handles,
                       [owner |-> "is_binary_file", entry |-> e])
                /\ pc' = "classify_read"
                /\ UNCHANGED <<is_binary, trail>>
    /\ UNCHANGED <<run, git, fs, out_file, prev_out, envLeft, git_files,
                   files_data, i, content, console>>

\* lines 19-22: is_binary_file reads the chunk and leaves the with block
ClassifyRead ==
    /\ pc = "classify_read"
    /\ LET h == TheHandle
       IN  IF ReadError(h.entry) # "none"
           THEN /\ is_binary' = TRUE
                /\ trail' = SetTrail("cls", ReadError(h.entry))
                /\ handles' = CloseOnRaise(handles, h)
           ELSE /\ is_binary' = IsBinaryChunk(h.entry.bytes)
                /\ trail' = SetTrail("cls", "ok")
                /\ handles' = CloseOnReturn(handles, h)
    /\ pc' = "read_open"
    /\ UNCHANGED <<run, git, fs, out_file, prev_out, envLeft, git_files,
                   files_data, i, content, console>>

\* a faulty read_file_content: no except clause, the open's error propagates
ReadOpenUncaught ==
    /\ pc = "read_open"
    /\ LET e == Lookup(fs, Path)
       IN  IF OpenError(e) # "none"
           THEN /\ pc' = "crashed"
                /\ UNCHANGED <<handles, content, trail>>
           ELSE /\ handles' = OpenHandle(handles,
                       [owner |-> "read_file_content", entry |-> e])
                /\ pc' = "read_body"
                /\ UNCHANGED <<content, trail>>
    /\ UNCHANGED <<run, git, fs, out_file, prev_out, envLeft, git_files,
                   files_data, i, is_binary, console>>

\* lines 26-29, 32-33, 35-36: read_file_content opens the file again
ReadOpen ==
    /\ pc = "read_open"
    /\ LET e == Lookup(fs, Path)
       IN  IF OpenError(e) # "none"
           THEN /\ content' = ErrorContent(OpenError(e), Path)
                /\ trail' = SetTrail("rd", OpenError(e))
                /\ pc' = "append"
                /\ UNCHANGED handles
           ELSE /\ handles' = OpenHandle(handles,
                       [owner |-> "read_file_content", entry |-> e])
                /\ pc' = "read_body"
                /\ UNCHANGED <<content, trail>>
    /\ UNCHANGED <<run, git, fs, out_file, prev_out, envLeft, git_files,
                   files_data, i, is_binary, console>>

\* lines 30-31, 34, 35-36: read_file_content reads all of it
ReadBody ==
    /\ pc = "read_body"
    /\ LET h == TheHandle
           branch == IF is_binary THEN "binary" ELSE "text"
       IN  IF ReadError(h.entry) # "none"
           THEN /\ content' = ErrorContent(ReadError(h.entry), Path)
                /\ trail' = [trail EXCEPT ![Len(trail)].rd = ReadError(h.entry),
                                          ![Len(trail)].branch = branch]
                /\ handles' = CloseOnRaise(handles, h)
           ELSE /\ content' = IF is_binary THEN ReadBinary(h.entry.bytes)
                                           ELSE ReadText(h.entry.bytes)
                /\ trail' = [trail EXCEPT ![Len(trail)].rd = "ok",
                                          ![Len(trail)].branch = branch,
                                          ![Len(trail)].bytes = h.entry.bytes]
                /\ handles' = CloseOnReturn(handles, h)
    /\ pc' = "append"
    /\ UNCHANGED <<run, git, fs, out_file, prev_out, envLeft, git_files,
                   files_data, i, is_binary, console>>

\* a faulty append: a path already recorded is not recorded again
AppendRecordOnce ==
    /\ pc = "append"
    /\ files_data' =
          IF \E k \in 1..Len(files_data) : files_data[k].path = Path
          THEN files_data
          ELSE Append(files_data, [path |-> Path, content |-> content])
    /\ console' = Append(console, Notice("Added"))
    /\ i' = i + 1
    /\ pc' = "loop"
    /\ UNCHANGED <<run, git, fs, out_file, prev_out, envLeft, git_files,
                   is_binary, content, handles, trail>>

\* lines 48-53: the record is appended and announced
AppendRecord ==
    /\ pc = "append"
    /\ files_data' = Append(files_data, [path |-> Path, content |-> content])
    /\ console' = Append(console, Notice("Added"))
    /\ i' = i + 1
    /\ pc' = "loop"
    /\ UNCHANGED <<run, git, fs, out_file, prev_out, envLeft, git_files,
                   is_binary, content, handles, trail>>

\* line 58: the output file is opened for writing, which truncates it
OpenOutput ==
    /\ pc = "loop"
    /\ i > Len(git_files)
    /\ handles' = OpenHandle(handles, [owner |-> "main", entry |-> Missing])
    /\ out_file' = EmptyFile
    /\ pc' = "dump"
    /\ UNCHANGED <<run, git, fs, prev_out, envLeft, git_files, files_data, i,
                   is_binary, content, console, trail>>

\* lines 59-62: json.dump, the with block ends, the summary is printed
DumpJson ==
    /\ pc = "dump"
    /\ out_file' = WrittenFile(files_data)
    /\ handles' = CloseOnReturn(handles, [owner |-> "main", entry |-> Missing])
    /\ console' = Append(console,
           [kind |-> "Created", i |-> 0, n |-> Len(files_data), path |-> <<>>])
    /\ pc' = "done"
    /\ UNCHANGED <<run, git, fs, prev_out, envLeft, git_files, files_data, i,
                   is_binary, content, trail>>

\* every step of main() up to and including the opening of the output file
Handling ==
    \/ Chdir
    \/ GetGitFiles
    \/ LoopTest
    \/ ClassifyOpen
    \/ ClassifyRead
    \/ ReadOpen
    \/ ReadBody
    \/ AppendRecord
    \/ OpenOutput

Program == Handling \/ DumpJson

----------------------------------------------------------------------------
(* Other processes, while main() loops over the paths *)

Looping == pc \notin {"start", "enumerate", "done", "crashed"}

\* a path of the tree is removed
EnvDelete ==
    /\ Looping
    /\ envLeft > 0
    /\ \E p \in TreePaths :
          /\ fs[p] # Missing
          /\ fs' = [fs EXCEPT ![p] = Missing]
    /\ envLeft' = envLeft - 1
    /\ UNCHANGED <<pc, run, git, out_file, prev_out, git_files, files_data, i,
                   is_binary, content, handles, console, trail>>

\* a path of the tree is created or replaced
EnvWrite ==
    /\ Looping
    /\ envLeft > 0
    /\ \E p \in TreePaths, e \in TreeEntries \ {Missing} :
          /\ fs[p] # e
          /\ fs' = [fs EXCEPT ![p] = e]
    /\ envLeft' = envLeft - 1
    /\ UNCHANGED <<pc, run, git, out_file, prev_out, git_files, files_data, i,
                   is_binary, content, handles, console, trail>>

\* the tool is started again
Rerun ==
    /\ pc = "done"
    /\ run = 1
    /\ run' = 2
    /\ prev_out' = out_file
    /\ pc' = "start"
    /\ git_files' = <<>>
    /\ files_data' = <<>>
    /\ i' = 0
    /\ is_binary' = FALSE
    /\ content' = <<>>
    /\ console' = <<>>
    /\ trail' = <<>>
    /\ UNCHANGED <<git, fs, out_file, envLeft, handles>>

----------------------------------------------------------------------------
(* Specifications *)

Locals ==
    /\ pc = "start"
    /\ run = 1
    /\ prev_out = NoFile
    /\ git_files = <<>>
    /\ files_data = <<>>
    /\ i = 0
    /\ is_binary = FALSE
    /\ content = <<>>
    /\ handles = {}
    /\ console = <<>>
    /\ trail = <<>>

\* one run, with other processes touching the tree meanwhile
Init ==
    /\ Locals
    /\ git \in GitOutcomes
    /\ fs \in [TreePaths -> TreeEntries]
    /\ out_file \in OldOutputs
    /\ envLeft = MaxEnv

Next == Program \/ EnvDelete \/ EnvWrite

Spec == Init /\ [][Next]_vars

\* two runs in a row over a tree nothing else touches
InitTwice ==
    /\ Locals
    /\ git \in GitOutcomes
    /\ fs \in [TreePaths -> TreeEntries]
    /\ out_file \in OldOutputs
    /\ envLeft = 0

NextTwice == Program \/ Rerun

SpecTwice == InitTwice /\ [][NextTwice]_vars

\* the bytes the classifier and the reader are tried on
FnBytes == {0, 10, 13, 65, 169, 195, 226, 255}

ShortFiles == SeqsUpTo(FnBytes, MaxLen)

\* files around the classifier's window: ChunkSize - 1 or ChunkSize plain
\* bytes, then a short tail
LongFiles ==
    {Rep(65, k) \o tail :
        k \in {ChunkSize - 1, ChunkSize}, tail \in SeqsUpTo({0, 13, 255}, 2)}

FnEntries ==
    {Missing, Directory, Unreadable} \cup {File(b) : b \in ShortFiles \cup LongFiles}

\* one run over one listed file, nothing else touching the tree
InitFn ==
    /\ Locals
    /\ git = [failure |-> "none", returncode |-> 0,
              stdout |-> LsFilesOutput(<<PathA>>)]
    /\ \E e \in FnEntries : fs = [p \in TreePaths |-> IF p = PathA THEN e ELSE Missing]
    /\ out_file = NoFile
    /\ envLeft = 0

SpecFn == InitFn /\ [][Program]_vars

----------------------------------------------------------------------------
(* Vocabulary of the properties *)

Failures == {"ENOENT", "EISDIR", "EIO"}

\* the Added / Skipped notices, in the order printed
FileNotices == SelectSeq(console, LAMBDA m : m.kind \in {"Added", "Skipped"})

\* the positions of the enumeration whose existence check failed
SkippedAt == {k \in 1..Len(trail) : ~trail[k].exists}

\* the positions of the enumeration whose record has been appended
RecordedAt ==
    SelectSeq([k \in 1..Len(trail) |-> k],
              LAMBDA k : trail[k].exists /\ k < i)

\* the entry of the trail for the path being handled
Current == trail[Len(trail)]

\* the first 1024 bytes (or all of them, if fewer) hold a zero byte
NullInWindow(bytes) ==
    \E k \in 1..Len(bytes) : k <= ChunkSize /\ bytes[k] = 0

\* the number of backslashes right before position j
BackslashesBefore(bytes, j) ==
    (CHOOSE r \in 1..j :
        /\ r = j \/ bytes[j - r] # 92
        /\ \A m \in 1..(r - 1) : bytes[j - m] = 92) - 1

\* the quotes of a JSON text that open or close a string: those after an
\* even number of backslashes
JsonQuotes(bytes) ==
    {j \in 1..Len(bytes) :
        bytes[j] = 34 /\ BackslashesBefore(bytes, j) % 2 = 0}

\* the positions outside the strings of a JSON text that hold byte b
OutsideStrings(bytes, b) ==
    LET quotes == JsonQuotes(bytes)
    IN  {p \in 1..Len(bytes) :
            bytes[p] = b /\ Cardinality({j \in quotes : j < p}) % 2 = 0}

\* the number of objects in a JSON array of flat objects
JsonElements(bytes) == Cardinality(OutsideStrings(bytes, 123))

\* the text is one array: it opens with "[", closes with "]", and has no
\* other bracket outside its strings
IsJsonArray(bytes) ==
    /\ Len(bytes) >= 2
    /\ OutsideStrings(bytes, 91) = {1}
    /\ OutsideStrings(bytes, 93) = {Len(bytes)}

\* the value of one base64 character
B64Value(c) ==
    IF c >= 65 /\ c <= 90 THEN c - 65
    ELSE IF c >= 97 /\ c <= 122 THEN c - 71
    ELSE IF c >= 48 /\ c <= 57 THEN c + 4
    ELSE IF c = 43 THEN 62
    ELSE IF c = 47 THEN 63
    ELSE IF c = 61 THEN 0
    ELSE -1

\* base64.b64decode: four characters become three bytes, less one per '='
B64Decode(text) ==
    LET m   == Len(text)
        pad == Cardinality({k \in 1..m : text[k] = 61})
    IN  [j \in 1..(3 * (m \div 4) - pad) |->
            LET g  == (j - 1) \div 3
                k  == (j - 1) % 3
                v0 == B64Value(text[4 * g + 1])
                v1 == B64Value(text[4 * g + 2])
                v2 == B64Value(text[4 * g + 3])
                v3 == B64Value(text[4 * g + 4])
            IN  IF k = 0 THEN v0 * 4 + (v1 \div 16)
                ELSE IF k = 1 THEN (v1 % 16) * 16 + (v2 \div 4)
                ELSE (v2 % 4) * 64 + v3]

\* text is well-formed base64: a multiple of four characters of the
\* alphabet, with '=' only as the last one or two
IsBase64(text) ==
    /\ Len(text) % 4 = 0
    /\ \A k \in 1..Len(text) :
          /\ B64Value(text[k]) >= 0
          /\ text[k] = 61 =>
                /\ k >= Len(text) - 1
                /\ \A j \in (k + 1)..Len(text) : text[j] = 61

----------------------------------------------------------------------------
(* Properties *)

\* C1: when main() has completed, the written array has one element per
\* enumerated path whose existence check succeeded (the enumeration's length
\* minus the failed checks); every enumerated path got exactly one notice,
\* Added (with a record) or Skipped (without), and the notice for the k-th
\* path reads [k/N] with N the enumeration's length.
C1_CountAndNotices ==
    pc = "done" =>
        /\ out_file.kind = "file"
        /\ IsJsonArray(out_file.bytes)
        /\ Len(trail) = Len(git_files)
        /\ JsonElements(out_file.bytes) = Len(git_files) - Cardinality(SkippedAt)
        /\ Len(FileNotices) = Len(git_files)
        /\ \A k \in 1..Len(FileNotices) :
              /\ FileNotices[k].i = k
              /\ FileNotices[k].n = Len(git_files)
              /\ FileNotices[k].path = git_files[k]
              /\ FileNotices[k].kind = IF trail[k].exists THEN "Added" ELSE "Skipped"
        /\ Len(files_data) =
              Cardinality({k \in 1..Len(FileNotices) : FileNotices[k].kind = "Added"})

C1_Witness ==
    /\ pc = "done"
    /\ Len(git_files) = 2
    /\ JsonElements(out_file.bytes) = 1
    /\ ~trail[1].exists

\* C2: a file that is gone when read_file_content comes to open it gets no
\* record: no Added notice is printed for a path whose read found the file
\* absent.
C2_DeletedFileGetsNoRecord ==
    \A k \in 1..Len(FileNotices) :
        FileNotices[k].kind = "Added" => trail[k].rd # "ENOENT"

C4_AnyFailureGivesErrorContent ==
    (pc = "append" /\ (Current.cls \in Failures \/ Current.rd \in Failures)) =>
        \E e \in Failures : content = ErrorContent(e, Path)

\* C4, amended: a failed read gives the error string with the error's
\* message; a failed classification followed by a successful read gives the
\* base64 payload; no failure on a file stops main (it only crashes before
\* the loop, can always take its next step until the output file is open,
\* and reaches the write with every path handled).
C4_FailureNeverAborts ==
    /\ (pc = "append" /\ Current.rd \in Failures) =>
          content = ErrPrefix \o ErrorText(Current.rd, Path) \o <<93>>
    /\ (pc = "append" /\ Current.cls \in Failures /\ Current.rd = "ok") =>
          /\ SubSeq(content, 1, Len(Marker)) = Marker
          /\ B64Decode(SubSeq(content, Len(Marker) + 1, Len(content))) = Current.bytes
    /\ pc = "crashed" => (trail = <<>> /\ git.failure # "none")
    /\ pc \in {"dump", "done"} => Len(trail) = Len(git_files)
    /\ pc \notin {"dump", "done", "crashed"} => ENABLED Handling

C4_Witness ==
    /\ pc = "done"
    /\ \E k \in 1..Len(trail) : trail[k].cls \in Failures /\ trail[k].rd = "ok"
    /\ \E k \in 1..Len(trail) : trail[k].rd \in Failures /\ k < Len(trail)

\* C5: the records are those of the enumerated paths that existed, in the
\* enumeration's order, one per occurrence; files_data only grows at its end
\* and what is in it never changes.
C5_OrderKeptAppendOnly ==
    /\ [](/\ Len(files_data) = Len(RecordedAt)
          /\ \A k \in 1..Len(files_data) :
                files_data[k].path = git_files[RecordedAt[k]])
    /\ [][/\ Len(files_data') >= Len(files_data)
          /\ Len(files_data') <= Len(files_data) + 1
          /\ SubSeq(files_data', 1, Len(files_data)) = files_data]_vars

C5_Witness ==
    /\ pc = "done"
    /\ Len(files_data) = 2
    /\ files_data[1].path = files_data[2].path

\* C6: is_binary_file returns true exactly when the first min(1024, length)
\* bytes of the file hold a zero byte or opening or reading it failed.
C6_BinaryIffNullOrFailure ==
    pc \in {"read_open", "read_body", "append"} =>
        (is_binary <=> (\/ Current.cls \in Failures
                        \/ NullInWindow(fs[Path].bytes)))

C6_Witness ==
    /\ pc = "read_open"
    /\ ~is_binary
    /\ Len(fs[Path].bytes) > ChunkSize
    /\ fs[Path].bytes[ChunkSize + 1] = 0

\* C7: the content returned for a file read as binary is the marker line
\* followed by base64 text that decodes to all the bytes of the file.
C7_Base64RoundTrip ==
    (pc = "append" /\ Current.branch = "binary" /\ Current.rd = "ok") =>
        LET payload == SubSeq(content, Len(Marker) + 1, Len(content))
        IN  /\ SubSeq(content, 1, Len(Marker)) = Marker
            /\ IsBase64(payload)
            /\ B64Decode(payload) = fs[Path].bytes

C7_Witness ==
    /\ pc = "append"
    /\ Current.branch = "binary"
    /\ Current.rd = "ok"
    /\ Len(fs[Path].bytes) > ChunkSize
    /\ fs[Path].bytes[Len(fs[Path].bytes)] # 65

\* C8: the content returned for a file read as text is the file's bytes
\* decoded as UTF-8 with each undecodable span replaced, and nothing else
\* done to it.
C8_TextIsDecodedBytes ==
    (pc = "append" /\ Current.branch = "text" /\ Current.rd = "ok") =>
        content = Utf8DecodeReplace(fs[Path].bytes)

C10_HandlesReleased ==
    /\ Cardinality(handles) <= 1
    /\ pc \notin {"classify_read", "read_body", "dump"} => handles = {}
    /\ pc = "classify_read" => \A h \in handles : h.owner = "is_binary_file"
    /\ pc = "read_body" => \A h \in handles : h.owner = "read_file_content"
    /\ pc = "dump" => \A h \in handles : h.owner = "main"

C10_Witness ==
    /\ pc = "done"
    /\ handles = {}
    /\ \E k \in 1..Len(trail) : trail[k].cls = "EIO"
    /\ \E k \in 1..Len(trail) : trail[k].rd = "EIO"
    /\ \E k \in 1..Len(trail) : trail[k].rd = "ok" /\ trail[k].branch = "text"

====
